---- MODULE Spec2Model ----
(***************************************************************************)
(* Dash-TM (dash-tm.py): a Streamlit dashboard over a Google Sheets tab.   *)
(* Every run of main() loads the raw matrix through two TTL caches,        *)
(* normalises it into a DataFrame, narrows it with the sidebar filters     *)
(* and renders the report tabs.                                            *)
(*                                                                         *)
(* A Python str is a TLA+ string.  TLC cannot look inside a string, so     *)
(* Chars gives the characters of a string and Text the string of a         *)
(* sequence of characters, for the texts that occur; str.strip,            *)
(* str.replace, strptime and to_numeric are computed character by          *)
(* character.  Floats are exact rationals n/d plus NaN and +/-inf (binary  *)
(* rounding error is not modelled).  pandas >= 2.0 is assumed:             *)
(* Series.str.replace replaces a literal text (regex=False).               *)
(***************************************************************************)
EXTENDS Integers, Sequences, FiniteSets, TLC

VARIABLES source, cacheLer, cacheLoad, ui, df, view, stage, raised, last

vars == <<source, cacheLer, cacheLoad, ui, df, view, stage, raised, last>>

----------------------------------------------------------------------------
(* Strings and their characters *)

TextTable ==
  {
    <<"", <<>>>>,
    <<"DATA", <<"D", "A", "T", "A">>>>,
    <<"DATA DA CALL", <<"D", "A", "T", "A", " ", "D", "A", " ", "C", "A", "L", "L">>>>,
    <<"DIA DA VENDA", <<"D", "I", "A", " ", "D", "A", " ", "V", "E", "N", "D", "A">>>>,
    <<"VALOR", <<"V", "A", "L", "O", "R">>>>,
    <<"VALOR_NUM", <<"V", "A", "L", "O", "R", "_", "N", "U", "M">>>>,
    <<"SDR", <<"S", "D", "R">>>>,
    <<"CLOSER", <<"C", "L", "O", "S", "E", "R">>>>,
    <<"FUNIL", <<"F", "U", "N", "I", "L">>>>,
    <<"STATUS", <<"S", "T", "A", "T", "U", "S">>>>,
    <<"VENDA REALIZADA", <<"V", "E", "N", "D", "A", " ", "R", "E", "A", "L", "I", "Z", "A", "D", "A">>>>,
    <<"PRODUTO", <<"P", "R", "O", "D", "U", "T", "O">>>>,
    <<"CICLO DE VENDAS", <<"C", "I", "C", "L", "O", " ", "D", "E", " ", "V", "E", "N", "D", "A", "S">>>>,
    <<" STATUS ", <<" ", "S", "T", "A", "T", "U", "S", " ">>>>,
    <<"Call Realizada", <<"C", "a", "l", "l", " ", "R", "e", "a", "l", "i", "z", "a", "d", "a">>>>,
    <<"Ganho", <<"G", "a", "n", "h", "o">>>>,
    <<"No Show", <<"N", "o", " ", "S", "h", "o", "w">>>>,
    <<"Todos", <<"T", "o", "d", "o", "s">>>>,
    <<"None", <<"N", "o", "n", "e">>>>,
    <<"N/A", <<"N", "/", "A">>>>,
    <<"01/03/2024", <<"0", "1", "/", "0", "3", "/", "2", "0", "2", "4">>>>,
    <<"02/03/2024", <<"0", "2", "/", "0", "3", "/", "2", "0", "2", "4">>>>,
    <<"03/03/2024", <<"0", "3", "/", "0", "3", "/", "2", "0", "2", "4">>>>,
    <<"1/3/2024", <<"1", "/", "3", "/", "2", "0", "2", "4">>>>,
    <<"2024-03-01", <<"2", "0", "2", "4", "-", "0", "3", "-", "0", "1">>>>,
    <<"31/02/2024", <<"3", "1", "/", "0", "2", "/", "2", "0", "2", "4">>>>,
    <<"Ana", <<"A", "n", "a">>>>,
    <<"Bia", <<"B", "i", "a">>>>,
    <<" Ana ", <<" ", "A", "n", "a", " ">>>>,
    <<"Bruno", <<"B", "r", "u", "n", "o">>>>,
    <<"Caio", <<"C", "a", "i", "o">>>>,
    <<"Inbound", <<"I", "n", "b", "o", "u", "n", "d">>>>,
    <<"Outbound", <<"O", "u", "t", "b", "o", "u", "n", "d">>>>,
    <<"Curso", <<"C", "u", "r", "s", "o">>>>,
    <<"Mentoria", <<"M", "e", "n", "t", "o", "r", "i", "a">>>>,
    <<" Curso", <<" ", "C", "u", "r", "s", "o">>>>,
    <<"Cancelamento", <<"C", "a", "n", "c", "e", "l", "a", "m", "e", "n", "t", "o">>>>,
    <<"R$ 1.000,00", <<"R", "$", " ", "1", ".", "0", "0", "0", ",", "0", "0">>>>,
    <<"R$ 250,50", <<"R", "$", " ", "2", "5", "0", ",", "5", "0">>>>,
    <<"-50,00", <<"-", "5", "0", ",", "0", "0">>>>,
    <<"abc", <<"a", "b", "c">>>>,
    <<"1500", <<"1", "5", "0", "0">>>>,
    <<"1.5", <<"1", ".", "5">>>>,
    <<"5", <<"5">>>>,
    <<"0", <<"0">>>>,
    <<"x", <<"x">>>>,
    <<"12", <<"1", "2">>>>,
    <<"-3", <<"-", "3">>>>,
    <<"extra", <<"e", "x", "t", "r", "a">>>>,
    <<" Call Realizada ", <<" ", "C", "a", "l", "l", " ", "R", "e", "a", "l", "i", "z", "a", "d", "a", " ">>>>,
    <<"R$ ", <<"R", "$", " ">>>>
  }

\* list(s)
Chars(s) == (CHOOSE p \in TextTable : p[1] = s)[2]

\* ''.join(cs)
Text(cs) == (CHOOSE p \in TextTable : p[2] = cs)[1]

date_columns == <<"DATA", "DATA DA CALL", "DIA DA VENDA">>

string_columns == <<"SDR", "CLOSER", "FUNIL", "STATUS", "VENDA REALIZADA">>

----------------------------------------------------------------------------
(* Values held by DataFrame cells and by displayed metrics.  One record    *)
(* shape for all of them: t is the kind, s the text, n/d the rational or   *)
(* (in n alone) the date as year*10000 + month*100 + day.                  *)

Str(s) == [t |-> "str", s |-> s, n |-> 0, d |-> 1]
PyNone == [t |-> "None", s |-> "", n |-> 0, d |-> 1]
Date(v) == [t |-> "date", s |-> "", n |-> v, d |-> 1]
NaT == [t |-> "NaT", s |-> "", n |-> 0, d |-> 1]
NaN == [t |-> "NaN", s |-> "", n |-> 0, d |-> 1]
PosInf == [t |-> "inf", s |-> "", n |-> 1, d |-> 1]
NegInf == [t |-> "inf", s |-> "", n |-> -1, d |-> 1]
Unset == [t |-> "unset", s |-> "", n |-> 0, d |-> 1]

Abs(x) == IF x < 0 THEN -x ELSE x

RECURSIVE GCD(_, _)
GCD(a, b) == IF b = 0 THEN a ELSE GCD(b, a % b)

\* the float n/d (d > 0), in lowest terms so that equal floats are equal values
Num(n, d) ==
  LET g == GCD(Abs(n), d)
  IN  [t |-> "num", s |-> "", n |-> n \div g, d |-> d \div g]

IntNum(n) == Num(n, 1)

\* pandas notna(): NaN, NaT and None are the missing values
notna(v) == v.t \notin {"NaN", "NaT", "None"}

----------------------------------------------------------------------------
(* Python / pandas text operations, on sequences of characters *)

IsSpace(c) == c \in {" ", "\t", "\n", "\r"}

RECURSIVE LStrip(_)
LStrip(s) == IF s # <<>> /\ IsSpace(Head(s)) THEN LStrip(Tail(s)) ELSE s

RECURSIVE RStrip(_)
RStrip(s) ==
  IF s # <<>> /\ IsSpace(s[Len(s)]) THEN RStrip(SubSeq(s, 1, Len(s) - 1)) ELSE s

\* str.strip()
strip(s) == RStrip(LStrip(s))

StartsWith(s, pat) == Len(pat) <= Len(s) /\ SubSeq(s, 1, Len(pat)) = pat

\* str.replace(pat, rep) with a literal, non-empty pat: leftmost occurrences,
\* not overlapping
RECURSIVE str_replace(_, _, _)
str_replace(s, pat, rep) ==
  IF s = <<>> THEN <<>>
  ELSE IF StartsWith(s, pat)
       THEN rep \o str_replace(SubSeq(s, Len(pat) + 1, Len(s)), pat, rep)
       ELSE <<Head(s)>> \o str_replace(Tail(s), pat, rep)

Digits == <<"0", "1", "2", "3", "4", "5", "6", "7", "8", "9">>

IsDigit(c) == \E i \in 1..10 : Digits[i] = c

DigitVal(c) == (CHOOSE i \in 1..10 : Digits[i] = c) - 1

AllDigits(s) == \A i \in 1..Len(s) : IsDigit(s[i])

RECURSIVE DecVal(_)
DecVal(s) == IF s = <<>> THEN 0 ELSE DecVal(SubSeq(s, 1, Len(s) - 1)) * 10 + DigitVal(s[Len(s)])

RECURSIVE Pow10(_)
Pow10(k) == IF k = 0 THEN 1 ELSE 10 * Pow10(k - 1)

\* position of the first occurrence of character c in s, 0 when there is none
IndexOf(s, c) ==
  IF \E i \in 1..Len(s) : s[i] = c
  THEN CHOOSE i \in 1..Len(s) : s[i] = c /\ \A j \in 1..(i - 1) : s[j] # c
  ELSE 0

----------------------------------------------------------------------------
(* Field parsers of load_data *)

IsLeap(y) == (y % 4 = 0 /\ y % 100 # 0) \/ y % 400 = 0

DaysInMonth(y, m) ==
  IF m = 2 THEN (IF IsLeap(y) THEN 29 ELSE 28)
  ELSE IF m \in {4, 6, 9, 11} THEN 30 ELSE 31

\* strptime with '%d/%m/%Y': %d and %m are one or two digits, %Y exactly
\* four, the whole text must match, the date must exist and lie in the
\* Timestamp range
strptime(s) ==
  LET i  == IndexOf(s, "/")
      r  == SubSeq(s, i + 1, Len(s))
      j  == IndexOf(r, "/")
      dd == SubSeq(s, 1, i - 1)
      mm == SubSeq(r, 1, j - 1)
      yy == SubSeq(r, j + 1, Len(r))
  IN  IF i = 0 \/ j = 0 THEN NaT
      ELSE IF ~(Len(dd) \in 1..2 /\ Len(mm) \in 1..2 /\ Len(yy) = 4) THEN NaT
      ELSE IF ~(AllDigits(dd) /\ AllDigits(mm) /\ AllDigits(yy)) THEN NaT
      ELSE
        LET d == DecVal(dd)
            m == DecVal(mm)
            y == DecVal(yy)
        IN  IF m \in 1..12 /\ d >= 1 /\ d <= DaysInMonth(y, m) /\ y \in 1678..2261
            THEN Date(y * 10000 + m * 100 + d)
            ELSE NaT

\* pd.to_datetime(cell, format='%d/%m/%Y', errors='coerce') on one cell: a
\* text that does not parse, and a missing cell, is NaT
to_datetime(v) == IF v.t # "str" THEN NaT ELSE strptime(Chars(v.s))

\* the float a text spells: surrounding whitespace skipped, an optional sign,
\* digits with an optional decimal point; any other text, the empty one
\* included, is NaN.  (Exponents and the spellings of infinity are outside
\* the inputs modelled.)
parse_float(cs) ==
  LET s0   == strip(cs)
      neg  == s0 # <<>> /\ Head(s0) = "-"
      s    == IF s0 # <<>> /\ Head(s0) \in {"+", "-"} THEN Tail(s0) ELSE s0
      p    == IndexOf(s, ".")
      ip   == IF p = 0 THEN s ELSE SubSeq(s, 1, p - 1)
      fp   == IF p = 0 THEN <<>> ELSE SubSeq(s, p + 1, Len(s))
  IN  IF Len(ip) + Len(fp) = 0 \/ ~AllDigits(ip) \/ ~AllDigits(fp) THEN NaN
      ELSE
        LET mag == DecVal(ip) * Pow10(Len(fp)) + DecVal(fp)
        IN  Num(IF neg THEN -mag ELSE mag, Pow10(Len(fp)))

\* pd.to_numeric(cell, errors='coerce') on one cell
to_numeric(v) == IF v.t # "str" THEN NaN ELSE parse_float(Chars(v.s))

\* Series.astype(str) on one cell, as characters
astype_str(v) == IF v.t = "str" THEN Chars(v.s) ELSE Chars("None")

\* Series.fillna(0) on one cell
fillna0(v) == IF notna(v) THEN v ELSE IntNum(0)

\* lines 89-90: the VALOR_NUM column from the VALOR column
VALOR_NUM_of(v) ==
  LET a == astype_str(v)
      b == str_replace(a, Chars("R$ "), <<>>)
      c == str_replace(b, <<".">>, <<>>)
      e == str_replace(c, <<",">>, <<".">>)
      f == IF e = <<>> THEN <<"0">> ELSE e
  IN  fillna0(parse_float(f))

\* line 96: a string column
clean_string(v) == Str(Text(strip(astype_str(v))))

----------------------------------------------------------------------------
(* DataFrames: the column names in order, and the rows, each with its      *)
(* index label (the position of the row in the source) and its value in    *)
(* every column.  None (no DataFrame) is the frame with none = TRUE.       *)

\* None, what load_data returns when it has no frame
NoFrame == [none |-> TRUE, columns |-> <<>>, names |-> {}, rows |-> <<>>]

\* a frame: df.columns in order and as the set of names, and the rows
Frame(columns, rows) ==
  [none |-> FALSE, columns |-> columns,
   names |-> {columns[i] : i \in 1..Len(columns)}, rows |-> rows]

ColSet(d) == d.names

\* col in df.columns
HasCol(d, col) == col \in d.names

\* df[col] of one row
Cell(r, col) == r.c[col]

\* df[col] = series
SetCol(d, col, series) ==
  [d EXCEPT !.rows = [i \in 1..Len(d.rows) |-> [d.rows[i] EXCEPT !.c[col] = series[i]]]]

\* df[new] = series, for a column the frame does not have yet
AddCol(d, new, series) ==
  [d EXCEPT !.columns = Append(@, new),
            !.names = @ \cup {new},
            !.rows = [i \in 1..Len(d.rows) |->
                        [d.rows[i] EXCEPT !.c =
                           [k \in ColSet(d) \cup {new} |->
                              IF k = new THEN series[i] ELSE d.rows[i].c[k]]]]]

\* df[mask]: the rows at which the boolean series mask is True, in order,
\* index labels kept
SelectRows(rows, mask) ==
  LET F[i \in 0..Len(rows)] ==
        IF i = 0 THEN <<>>
        ELSE IF mask[i] THEN Append(F[i - 1], rows[i]) ELSE F[i - 1]
  IN  F[Len(rows)]

Where(d, mask) == [d EXCEPT !.rows = SelectRows(d.rows, mask)]

\* len(df)
len(d) == Len(d.rows)

\* df[col].dropna().unique() as a set
Unique(d, col) ==
  {d.rows[i].c[col] : i \in {j \in 1..Len(d.rows) : notna(d.rows[j].c[col])}}

RowWidths(data) == {Len(data[i]) : i \in 1..Len(data)}

MaxOf(S) == CHOOSE x \in S : \A y \in S : y <= x

MinOf(S) == CHOOSE x \in S : \A y \in S : x <= y

\* pd.DataFrame(data, columns=header) raises unless the data is empty or its
\* widest row has as many cells as the header
DataFrameRaises(header, data) ==
  data # <<>> /\ MaxOf(RowWidths(data)) # Len(header)

\* pd.DataFrame(data, columns=header): shorter rows are padded with None
DataFrame(header, data) ==
  Frame(header,
        [i \in 1..Len(data) |->
           [idx |-> i,
            c   |-> [h \in {header[k] : k \in 1..Len(header)} |->
                       LET k == CHOOSE k \in 1..Len(header) : header[k] = h
                       IN  IF k <= Len(data[i]) THEN Str(data[i][k]) ELSE PyNone]]])

\* df.columns.str.strip() of one name
strip_name(c) == Text(strip(Chars(c)))

\* line 79: df.columns = df.columns.str.strip()
strip_columns(d) ==
  Frame([k \in 1..Len(d.columns) |-> strip_name(d.columns[k])],
        [i \in 1..Len(d.rows) |->
           [d.rows[i] EXCEPT !.c =
              [n \in {strip_name(c) : c \in ColSet(d)} |->
                 d.rows[i].c[CHOOSE c \in ColSet(d) : strip_name(c) = n]]]])

\* lines 84-85, for one column
to_datetime_col(d, col) ==
  IF HasCol(d, col)
  THEN SetCol(d, col, [i \in 1..Len(d.rows) |-> to_datetime(Cell(d.rows[i], col))])
  ELSE d

\* lines 82-85
parse_date_columns(d) ==
  LET F[i \in 0..Len(date_columns)] ==
        IF i = 0 THEN d ELSE to_datetime_col(F[i - 1], date_columns[i])
  IN  F[Len(date_columns)]

\* lines 88-90
add_VALOR_NUM(d) ==
  IF HasCol(d, "VALOR")
  THEN AddCol(d, "VALOR_NUM", [i \in 1..Len(d.rows) |-> VALOR_NUM_of(Cell(d.rows[i], "VALOR"))])
  ELSE d

\* lines 95-96, for one column
clean_string_col(d, col) ==
  IF HasCol(d, col)
  THEN SetCol(d, col, [i \in 1..Len(d.rows) |-> clean_string(Cell(d.rows[i], col))])
  ELSE d

\* lines 93-96
clean_string_columns(d) ==
  LET F[i \in 0..Len(string_columns)] ==
        IF i = 0 THEN d ELSE clean_string_col(F[i - 1], string_columns[i])
  IN  F[Len(string_columns)]

\* lines 99-100
ciclo_to_numeric(d) ==
  IF HasCol(d, "CICLO DE VENDAS")
  THEN SetCol(d, "CICLO DE VENDAS",
              [i \in 1..Len(d.rows) |-> to_numeric(Cell(d.rows[i], "CICLO DE VENDAS"))])
  ELSE d

\* the body of load_data on the matrix ler_dados returned; whatever raises
\* inside it is caught at line 103 and makes it return None
load_data_of(aba_agendamentos) ==
  IF aba_agendamentos = <<>> THEN NoFrame
  ELSE IF DataFrameRaises(Head(aba_agendamentos), Tail(aba_agendamentos)) THEN NoFrame
  ELSE
    ciclo_to_numeric(
      clean_string_columns(
        add_VALOR_NUM(
          parse_date_columns(
            strip_columns(DataFrame(Head(aba_agendamentos), Tail(aba_agendamentos)))))))

----------------------------------------------------------------------------
(* Sidebar filters of main *)

\* DATA within [start, end), the end date left out
filter_agendamento_open(d, rng) ==
  Where(d, [i \in 1..Len(d.rows) |->
                LET v == Cell(d.rows[i], "DATA")
                IN  v.t = "date" /\ v.n >= rng[1] /\ v.n < rng[2]])

\* DIA DA VENDA within [start, end] only, rows without a sale date dropped
filter_venda_dated(d, rng) ==
  Where(d, [i \in 1..Len(d.rows) |->
                LET v == Cell(d.rows[i], "DIA DA VENDA")
                IN  v.t = "date" /\ v.n >= rng[1] /\ v.n <= rng[2]])

\* only the first row whose col equals selected
filter_eq_first(d, col, selected) ==
  LET m == SelectRows(d.rows, [i \in 1..Len(d.rows) |-> Cell(d.rows[i], col) = selected])
  IN  [d EXCEPT !.rows = IF m = <<>> THEN <<>> ELSE <<Head(m)>>]

\* lines 504-505: DATA within [start, end], both ends included
filter_agendamento(d, rng) ==
  Where(d, [i \in 1..Len(d.rows) |->
                LET v == Cell(d.rows[i], "DATA")
                IN  v.t = "date" /\ v.n >= rng[1] /\ v.n <= rng[2]])

\* lines 527-530: DIA DA VENDA within [start, end], or no sale date
filter_venda(d, rng) ==
  Where(d, [i \in 1..Len(d.rows) |->
                LET v == Cell(d.rows[i], "DIA DA VENDA")
                IN  \/ v.t = "date" /\ v.n >= rng[1] /\ v.n <= rng[2]
                    \/ ~notna(v)])

\* df[df[col] == selected]
filter_eq(d, col, selected) ==
  Where(d, [i \in 1..Len(d.rows) |-> Cell(d.rows[i], col) = selected])

\* the parsed dates of a date column
DatesOf(d, col) == {v.n : v \in Unique(d, col)}

----------------------------------------------------------------------------
(* Metrics *)

AddNum(a, b) == Num(a.n * b.d + b.n * a.d, a.d * b.d)

\* Series.sum() of numbers: 0 for no rows
SumSeq(vs) ==
  LET F[i \in 0..Len(vs)] == IF i = 0 THEN IntNum(0) ELSE AddNum(F[i - 1], vs[i])
  IN  F[Len(vs)]

\* len(df[df[col] == text])
CountWhere(d, col, text) == len(filter_eq(d, col, Str(text)))

\* df[df['VENDA REALIZADA'] == 'Ganho']['VALOR_NUM'].sum()
receita(d) ==
  LET g == filter_eq(d, "VENDA REALIZADA", Str("Ganho"))
  IN  SumSeq([i \in 1..len(g) |-> Cell(g.rows[i], "VALOR_NUM")])

\* line 139
taxa_show(total_agendamentos, calls_realizadas) ==
  IF total_agendamentos > 0 THEN Num(calls_realizadas * 100, total_agendamentos)
  ELSE IntNum(0)

\* the conversion rate as the plain division, which has no value at 0 calls
taxa_conversao_unguarded(calls_realizadas, vendas_ganhas) ==
  IF calls_realizadas # 0 THEN Num(vendas_ganhas * 100, calls_realizadas) ELSE NaN

\* lines 140 and 218
taxa_conversao(calls_realizadas, vendas_ganhas) ==
  IF calls_realizadas > 0 THEN Num(vendas_ganhas * 100, calls_realizadas)
  ELSE IntNum(0)

\* line 141
taxa_no_show(total_agendamentos, no_shows) ==
  IF total_agendamentos > 0 THEN Num(no_shows * 100, total_agendamentos)
  ELSE IntNum(0)

\* line 284
taxa_show_sdr(total_agendamentos, calls_realizadas) ==
  IF total_agendamentos > 0 THEN Num(calls_realizadas * 100, total_agendamentos)
  ELSE IntNum(0)

\* Series / Series * 100 of integer counts, as numpy divides: x/0 is inf,
\* 0/0 is NaN, and no exception
series_pct(num, den) ==
  IF den # 0 THEN Num(num * 100, den)
  ELSE IF num = 0 THEN NaN
  ELSE IF num > 0 THEN PosInf ELSE NegInf

\* Series.round(1): to the nearest tenth, halves to the even tenth; NaN and
\* inf stay what they are
round1(v) ==
  IF v.t # "num" THEN v
  ELSE LET q == (10 * v.n) \div v.d
           r == (10 * v.n) % v.d
       IN  Num(IF 2 * r > v.d THEN q + 1
               ELSE IF 2 * r = v.d THEN q + (q % 2)
               ELSE q, 10)

\* line 144: mean of the CICLO DE VENDAS values that are present and > 0;
\* Series.mean() of no values is NaN
ciclo_medio(d) ==
  LET c == Where(d, [i \in 1..Len(d.rows) |->
                LET v == Cell(d.rows[i], "CICLO DE VENDAS")
                    IN  notna(v) /\ v.n > 0])
      s == SumSeq([i \in 1..len(c) |-> Cell(c.rows[i], "CICLO DE VENDAS")])
  IN  IF len(c) = 0 THEN NaN ELSE Num(s.n, s.d * len(c))

\* line 153: what the card shows for the mean cycle
ciclo_medio_shown(d) ==
  LET m == ciclo_medio(d) IN IF notna(m) THEN m ELSE Str("N/A")

\* every record whose CICLO DE VENDAS is present, the zero and negative ones
\* included
df_ciclo_notna(d) ==
  Where(d, [i \in 1..Len(d.rows) |-> notna(Cell(d.rows[i], "CICLO DE VENDAS"))])

\* line 406: the records whose CICLO DE VENDAS is present and > 0
df_ciclo(d) ==
  Where(d, [i \in 1..Len(d.rows) |->
                LET v == Cell(d.rows[i], "CICLO DE VENDAS")
                IN  notna(v) /\ v.n > 0])

\* df[col] as the sequence of its values
Series(d, col) == [i \in 1..Len(d.rows) |-> Cell(d.rows[i], col)]

\* a <= b for floats
LeNum(a, b) == a.n * b.d <= b.n * a.d

\* the sorted sequence s with v put in its place
Insert(s, v) ==
  LET k == Cardinality({j \in 1..Len(s) : LeNum(s[j], v)})
  IN  SubSeq(s, 1, k) \o <<v>> \o SubSeq(s, k + 1, Len(s))

\* the values of vs in ascending order
Sorted(vs) ==
  LET F[i \in 0..Len(vs)] == IF i = 0 THEN <<>> ELSE Insert(F[i - 1], vs[i])
  IN  F[Len(vs)]

\* Series.mean() of numbers, NaN for none
series_mean(vs) ==
  IF vs = <<>> THEN NaN ELSE Num(SumSeq(vs).n, SumSeq(vs).d * Len(vs))

\* the middle of a sorted sequence s: its middle value, or the mean of the
\* two middle values when their number is even
middle(s) ==
  IF Len(s) % 2 = 1 THEN s[(Len(s) + 1) \div 2]
  ELSE series_mean(<<s[Len(s) \div 2], s[Len(s) \div 2 + 1]>>)

\* Series.median() of numbers, NaN for none
series_median(vs) == IF vs = <<>> THEN NaN ELSE middle(Sorted(vs))

\* Series.min() of numbers, NaN for none
series_min(vs) == IF vs = <<>> THEN NaN ELSE Sorted(vs)[1]

\* Series.max() of numbers, NaN for none
series_max(vs) == IF vs = <<>> THEN NaN ELSE Sorted(vs)[Len(vs)]

\* lines 237-245: one row per CLOSER
vendedor_stats(d) ==
  { LET g      == filter_eq(d, "CLOSER", k)
        calls  == CountWhere(g, "STATUS", "Call Realizada")
        vendas == CountWhere(g, "VENDA REALIZADA", "Ganho")
    IN  [Vendedor         |-> k.s,
         Calls_Realizadas |-> calls,
         Vendas           |-> vendas,
         Receita          |-> receita(g),
         Taxa_Conversao   |-> round1(series_pct(vendas, calls))]
    : k \in Unique(d, "CLOSER") }

\* lines 389-397: one row per FUNIL
funil_complete(d) ==
  { LET g      == filter_eq(d, "FUNIL", k)
        total  == len(g)
        calls  == CountWhere(g, "STATUS", "Call Realizada")
        vendas == CountWhere(g, "VENDA REALIZADA", "Ganho")
    IN  [Funil              |-> k.s,
         Total_Agendamentos |-> total,
         Calls_Realizadas   |-> calls,
         No_Shows           |-> CountWhere(g, "STATUS", "No Show"),
         Vendas             |-> vendas,
         Receita            |-> receita(g),
         Taxa_Show          |-> round1(series_pct(calls, total)),
         Taxa_Conversao     |-> round1(series_pct(vendas, calls))]
    : k \in Unique(d, "FUNIL") }

----------------------------------------------------------------------------
(* main: one run of the script *)

\* days the date pickers offer besides the dates of the data
NDays == 2

Calendar == {20240300 + k : k \in 1..NDays}

\* The columns main and the report tabs index without a guard, in the order
\* the script first reaches them: df['PRODUTO'] (536), df['FUNIL'] (542),
\* df['STATUS'] (548), then in dashboard_geral df['VENDA REALIZADA'] (111),
\* df['VALOR_NUM'] (112), df['CICLO DE VENDAS'] (144), groupby('CLOSER')
\* (193), and in dashboard_sdr df['SDR'] (271).  Indexing a column the frame
\* does not have raises KeyError, which nothing in main catches.
Required == <<"PRODUTO", "FUNIL", "STATUS", "VENDA REALIZADA", "VALOR_NUM",
              "CICLO DE VENDAS", "CLOSER", "SDR">>

\* position in Required of the first column the frame lacks, Len + 1 if none
FirstMissing(d) ==
  IF \A k \in 1..Len(Required) : HasCol(d, Required[k]) THEN Len(Required) + 1
  ELSE CHOOSE k \in 1..Len(Required) :
         /\ ~HasCol(d, Required[k])
         /\ \A j \in 1..(k - 1) : HasCol(d, Required[j])

\* the script gets past the k-th of these accesses
Reaches(d, k) == FirstMissing(d) > k

\* the days from lo to hi
Between(days, lo, hi) == {x \in days : x >= lo /\ x <= hi}

\* min_value and max_value of a picker over the dates ds of the frame
PickerDays(ds) == Between(Calendar \cup ds, MinOf(ds), MaxOf(ds))

\* what st.date_input can return: a complete range or only its first date
RangeChoices(days) ==
  {x \in days \X days : x[1] <= x[2]} \cup {<<s>> : s \in days}

\* what a picker over the dates ds returns, and, when the frame has no
\* date, what the script has instead
DateChoices(ds, otherwise) == IF ds = {} THEN otherwise ELSE RangeChoices(PickerDays(ds))

\* lines 493-500: the picker is bounded by the first and the last DATA of
\* the frame, or by days around today when no DATA parsed
AgendChoices(d) ==
  IF ~HasCol(d, "DATA") THEN {<<>>}
  ELSE DateChoices(DatesOf(d, "DATA"), RangeChoices(Calendar))

\* lines 502-505
after_agendamento(d, a) ==
  IF HasCol(d, "DATA") /\ Len(a) = 2 THEN filter_agendamento(d, a) ELSE d

\* line 510
UsarChoices(d) == IF HasCol(d, "DIA DA VENDA") THEN BOOLEAN ELSE {FALSE}

\* lines 513-522
VendaChoices(d, usar_filtro_venda) ==
  IF ~usar_filtro_venda THEN {<<>>}
  ELSE DateChoices(DatesOf(d, "DIA DA VENDA"), {<<>>})

\* lines 512-530
after_venda(d, usar_filtro_venda, v) ==
  IF usar_filtro_venda /\ Len(v) = 2 THEN filter_venda(d, v) ELSE d

\* ['Todos'] + sorted(df[col].dropna().unique().tolist()), as a set; Unset
\* when the script does not get to the selector
SelectChoices(d, col, reached) ==
  IF reached /\ HasCol(d, col) THEN {Str("Todos")} \cup Unique(d, col) ELSE {Unset}

\* if selected != 'Todos': df = df[df[col] == selected]
after_select(d, col, selected) ==
  IF selected.t = "str" /\ selected # Str("Todos") THEN filter_eq(d, col, selected) ELSE d

NoUI == [agend |-> <<>>, usar |-> FALSE, venda |-> <<>>, produto |-> Unset,
         funil |-> Unset, status |-> Unset, closer |-> Unset, sdr |-> Unset]

\* value=(first, last) of the date picker
RangeDefault(choices) ==
  IF choices = {<<>>} THEN <<>>
  ELSE LET days == {x[1] : x \in choices} IN <<MinOf(days), MaxOf(days)>>

\* a widget keeps the value the session holds while the run still offers
\* it, and otherwise shows its default
PickRange(cur, choices) == IF cur \in choices THEN cur ELSE RangeDefault(choices)

PickSelect(cur, choices) ==
  IF cur \in choices THEN cur
  ELSE IF choices = {Unset} THEN Unset ELSE Str("Todos")

\* lines 205-206 and 271-272: the selectors of the tabs, on the filtered frame
side_tabs(d, u0, u, v) ==
  [ui   |-> [u EXCEPT
               !.closer = PickSelect(u0.closer, SelectChoices(v, "CLOSER", Reaches(d, 6))),
               !.sdr = PickSelect(u0.sdr, SelectChoices(v, "SDR", Reaches(d, 7)))],
   view |-> v]

\* lines 548-551
side_status(d, u0, u, v, s) ==
  side_tabs(d, u0, [u EXCEPT !.status = s], after_select(v, "STATUS", s))

\* lines 542-545
side_funil(d, u0, u, v, f) ==
  side_status(d, u0, [u EXCEPT !.funil = f], after_select(v, "FUNIL", f),
              PickSelect(u0.status,
                         SelectChoices(after_select(v, "FUNIL", f), "STATUS", Reaches(d, 2))))

\* lines 536-539
side_produto(d, u0, u, v, p) ==
  side_funil(d, u0, [u EXCEPT !.produto = p], after_select(v, "PRODUTO", p),
             PickSelect(u0.funil,
                        SelectChoices(after_select(v, "PRODUTO", p), "FUNIL", Reaches(d, 1))))

\* lines 512-530
side_venda(d, u0, u, v, us, ve) ==
  side_produto(d, u0, [u EXCEPT !.usar = us, !.venda = ve], after_venda(v, us, ve),
               PickSelect(u0.produto, SelectChoices(after_venda(v, us, ve), "PRODUTO", TRUE)))

\* lines 508-510
side_usar(d, u0, u, v, us) ==
  side_venda(d, u0, u, v, us, PickRange(u0.venda, VendaChoices(v, us)))

\* lines 491-505
side_agendamento(d, u0, a) ==
  side_usar(d, u0, [NoUI EXCEPT !.agend = a], after_agendamento(d, a),
            IF u0.usar \in UsarChoices(d) THEN u0.usar ELSE FALSE)

\* lines 491-551 and the selectors of the tabs: the widget values of a run
\* on frame d when the session holds u0, and the filtered frame.  The
\* widgets are read in script order, each offering what the frame filtered
\* so far holds.
sidebar(d, u0) == side_agendamento(d, u0, PickRange(u0.agend, AgendChoices(d)))

\* what the user can do to one widget of the page that a run on frame d
\* with widget values u rendered (or to none) before the script runs
\* again: pick another of the values the widget offers
Interactions(d, u) ==
  LET v1 == after_agendamento(d, u.agend)
      v2 == after_venda(v1, u.usar, u.venda)
      v3 == after_select(v2, "PRODUTO", u.produto)
      v4 == after_select(v3, "FUNIL", u.funil)
      v5 == after_select(v4, "STATUS", u.status)
  IN  {u}
      \cup {[u EXCEPT !.agend = x] : x \in AgendChoices(d) \ {<<>>}}
      \cup {[u EXCEPT !.usar = x] : x \in UsarChoices(d)}
      \cup {[u EXCEPT !.venda = x] : x \in VendaChoices(v1, u.usar) \ {<<>>}}
      \cup {[u EXCEPT !.produto = x] : x \in SelectChoices(v2, "PRODUTO", TRUE) \ {Unset}}
      \cup {[u EXCEPT !.funil = x] : x \in SelectChoices(v3, "FUNIL", Reaches(d, 1)) \ {Unset}}
      \cup {[u EXCEPT !.status = x] : x \in SelectChoices(v4, "STATUS", Reaches(d, 2)) \ {Unset}}
      \cup {[u EXCEPT !.closer = x] : x \in SelectChoices(v5, "CLOSER", Reaches(d, 6)) \ {Unset}}
      \cup {[u EXCEPT !.sdr = x] : x \in SelectChoices(v5, "SDR", Reaches(d, 7)) \ {Unset}}

\* the frame d after the two date filters, with widget values u
after_dates(d, u) == after_venda(after_agendamento(d, u.agend), u.usar, u.venda)

\* line 536: the list the product selector offers in a run on frame d with
\* widget values u
produtos(d, u) == SelectChoices(after_dates(d, u), "PRODUTO", TRUE)

\* line 542: the list the funnel selector offers
funis(d, u) ==
  SelectChoices(after_select(after_dates(d, u), "PRODUTO", u.produto), "FUNIL", Reaches(d, 1))

\* line 548: the list the status selector offers
status_options(d, u) ==
  SelectChoices(after_select(after_select(after_dates(d, u), "PRODUTO", u.produto),
                             "FUNIL", u.funil),
                "STATUS", Reaches(d, 2))

\* the branch of line 484
is_loaded(d) == ~d.none /\ d.rows # <<>>

\* a run of main that takes the branch of line 484 on the filtered frame
Main_on_view(d, u0) ==
  IF ~is_loaded(d) \/ len(sidebar(d, u0).view) = 0
  THEN /\ ui' = NoUI
       /\ view' = NoFrame
       /\ stage' = "fallback"
       /\ raised' = Unset
  ELSE /\ ui' = sidebar(d, u0).ui
       /\ view' = sidebar(d, u0).view
       /\ stage' = IF Reaches(d, Len(Required)) THEN "loaded" ELSE "error"
       /\ raised' = IF Reaches(d, Len(Required)) THEN Unset
                    ELSE Str(Required[FirstMissing(d)])

\* the rest of a run of main once load_data has returned d, the session
\* holding widget values u0
Main(d, u0) ==
  IF ~is_loaded(d)
  THEN /\ ui' = NoUI
       /\ view' = NoFrame
       /\ stage' = "fallback"
       /\ raised' = Unset
  ELSE \E sb \in {sidebar(d, u0)} :
         /\ ui' = sb.ui
         /\ view' = sb.view
         /\ stage' = IF Reaches(d, Len(Required)) THEN "loaded" ELSE "error"
         /\ raised' = IF Reaches(d, Len(Required)) THEN Unset
                      ELSE Str(Required[FirstMissing(d)])

----------------------------------------------------------------------------
(* What the tabs show *)

NoShown ==
  [total_agendamentos |-> Unset, calls_realizadas |-> Unset, vendas_ganhas |-> Unset,
   receita_total |-> Unset, taxa_show |-> Unset, taxa_conversao |-> Unset,
   taxa_no_show |-> Unset, ciclo_medio |-> Unset,
   closer_calls |-> Unset, closer_vendas |-> Unset, closer_taxa |-> Unset,
   closer_receita |-> Unset, vendedor_stats |-> {},
   sdr_agendamentos |-> Unset, sdr_calls |-> Unset, sdr_taxa_show |-> Unset,
   sdr_no_shows |-> Unset, funil_complete |-> {},
   ciclo_warning |-> FALSE, ciclo_tab_medio |-> Unset, ciclo_mediano |-> Unset,
   ciclo_min |-> Unset, ciclo_max |-> Unset]

\* lines 107-121: the four cards
create_metrics_cards(d, sh) ==
  [sh EXCEPT !.total_agendamentos = IntNum(len(d)),
             !.calls_realizadas = IntNum(CountWhere(d, "STATUS", "Call Realizada")),
             !.vendas_ganhas = IntNum(CountWhere(d, "VENDA REALIZADA", "Ganho")),
             !.receita_total = receita(d)]

\* lines 134-153: the four rate metrics
dashboard_geral(d, sh) ==
  LET total_agendamentos == len(d)
      calls_realizadas   == CountWhere(d, "STATUS", "Call Realizada")
      vendas_ganhas      == CountWhere(d, "VENDA REALIZADA", "Ganho")
      no_shows           == CountWhere(d, "STATUS", "No Show")
  IN  [sh EXCEPT !.taxa_show = taxa_show(total_agendamentos, calls_realizadas),
                 !.taxa_conversao = taxa_conversao(calls_realizadas, vendas_ganhas),
                 !.taxa_no_show = taxa_no_show(total_agendamentos, no_shows),
                 !.ciclo_medio = ciclo_medio_shown(d)]

\* lines 205-264
dashboard_vendedores(d, selected_closer, sh) ==
  LET df_filtered  == after_select(d, "CLOSER", selected_closer)
      total_calls  == CountWhere(df_filtered, "STATUS", "Call Realizada")
      total_vendas == CountWhere(df_filtered, "VENDA REALIZADA", "Ganho")
  IN  [sh EXCEPT !.closer_calls = IntNum(total_calls),
                 !.closer_vendas = IntNum(total_vendas),
                 !.closer_taxa = taxa_conversao(total_calls, total_vendas),
                 !.closer_receita = receita(df_filtered),
                 !.vendedor_stats = vendedor_stats(d)]

\* lines 271-294
dashboard_sdr(d, selected_sdr, sh) ==
  LET df_filtered        == after_select(d, "SDR", selected_sdr)
      total_agendamentos == len(df_filtered)
      calls_realizadas   == CountWhere(df_filtered, "STATUS", "Call Realizada")
  IN  [sh EXCEPT !.sdr_agendamentos = IntNum(total_agendamentos),
                 !.sdr_calls = IntNum(calls_realizadas),
                 !.sdr_taxa_show = taxa_show_sdr(total_agendamentos, calls_realizadas),
                 !.sdr_no_shows = IntNum(CountWhere(df_filtered, "STATUS", "No Show"))]

\* lines 389-399
dashboard_funis(d, sh) == [sh EXCEPT !.funil_complete = funil_complete(d)]

\* lines 408-426, on the CICLO DE VENDAS values vs of df_ciclo: the warning,
\* or the four cards (which print their value with no decimals)
ciclo_cards(vs, sh) ==
  IF Len(vs) = 0 THEN [sh EXCEPT !.ciclo_warning = TRUE]
  ELSE [sh EXCEPT !.ciclo_tab_medio = series_mean(vs),
                  !.ciclo_mediano = series_median(vs),
                  !.ciclo_min = series_min(vs),
                  !.ciclo_max = series_max(vs)]

\* lines 401-426
dashboard_ciclo_vendas(d, sh) == ciclo_cards(Series(df_ciclo(d), "CICLO DE VENDAS"), sh)

\* lines 561-574: the tabs on the filtered frame d, as far as the script
\* gets before a KeyError
reports(d, u) ==
  LET s0 == NoShown
      s1 == IF Reaches(d, 5) THEN create_metrics_cards(d, s0) ELSE s0
      s2 == IF Reaches(d, 6) THEN dashboard_geral(d, s1) ELSE s1
      s3 == IF Reaches(d, 7) THEN dashboard_vendedores(d, u.closer, s2) ELSE s2
      s4 == IF Reaches(d, 8) THEN dashboard_funis(d, dashboard_sdr(d, u.sdr, s3)) ELSE s3
      s5 == IF Reaches(d, 8) THEN dashboard_ciclo_vendas(d, s4) ELSE s4
  IN  s5

\* what the page of the last run shows
shown == IF stage \in {"loaded", "error"} THEN reports(view, ui) ELSE NoShown

----------------------------------------------------------------------------
(* The data source and the two st.cache_data(ttl=300) caches *)

NoValues == [has |-> FALSE, val |-> <<>>]

NoLoad == [has |-> FALSE, val |-> NoFrame]

\* last is a history variable: how the last run of the script came by its
\* data, "miss" when load_data executed and requested the sheet, "hit"
\* when the cache answered, "clear" when the run is the st.rerun() that
\* follows st.cache_data.clear().  A session that starts with it "off"
\* keeps no history.
Kind(k) == IF last = "off" THEN "off" ELSE k

\* lines 57-66: the matrix of the sheet, [] when the request raises
ler_dados_of(src) == IF src.up THEN src.values ELSE <<>>

\* a run of the script whose caches keep a frame with rows only: no data is
\* fetched again by the next run
Run_forgets_no_data ==
  /\ \E values \in {IF cacheLer.has THEN cacheLer.val ELSE ler_dados_of(source)} :
     \E d \in {IF cacheLoad.has THEN cacheLoad.val ELSE load_data_of(values)} :
       /\ cacheLer' = IF is_loaded(d) THEN [has |-> TRUE, val |-> values] ELSE NoValues
       /\ cacheLoad' = IF is_loaded(d) THEN [has |-> TRUE, val |-> d] ELSE NoLoad
       /\ df' = d
       /\ last' = Kind(IF cacheLoad.has THEN "hit" ELSE "miss")
       /\ \E u0 \in (IF stage \in {"loaded", "error"} THEN Interactions(df, ui) ELSE {ui}) :
            Main(d, u0)
  /\ UNCHANGED source

\* lines 481-482 and the rest of main: a run of the script, after the user
\* touched a widget or reloaded the page
Run ==
  /\ \E values \in {IF cacheLer.has THEN cacheLer.val ELSE ler_dados_of(source)} :
     \E d \in {IF cacheLoad.has THEN cacheLoad.val ELSE load_data_of(values)} :
       /\ cacheLer' = IF cacheLoad.has THEN cacheLer ELSE [has |-> TRUE, val |-> values]
       /\ cacheLoad' = [has |-> TRUE, val |-> d]
       /\ df' = d
       /\ last' = Kind(IF cacheLoad.has THEN "hit" ELSE "miss")
       /\ \E u0 \in (IF stage \in {"loaded", "error"} THEN Interactions(df, ui) ELSE {ui}) :
            Main(d, u0)
  /\ UNCHANGED source

\* the script gets to line 588, where the button is
reaches_button(d) == is_loaded(d) /\ Reaches(d, Len(Required))

\* a click on the button that only runs the script again, the caches kept
Atualizar_cached ==
  /\ stage = "loaded"
  /\ \E d \in {IF cacheLoad.has THEN cacheLoad.val
               ELSE load_data_of(IF cacheLer.has THEN cacheLer.val ELSE ler_dados_of(source))} :
       /\ cacheLer' = IF cacheLer.has THEN cacheLer
                      ELSE [has |-> TRUE, val |-> ler_dados_of(source)]
       /\ cacheLoad' = [has |-> TRUE, val |-> d]
       /\ df' = d
       /\ last' = Kind("clear")
       /\ Main(d, ui)
  /\ UNCHANGED source

\* lines 588-590: the button exists on the page of a run that got to line
\* 588.  A click runs the script; if that run gets to line 588 again it
\* clears both caches and st.rerun() runs the script once more, with the
\* widget values of the run before, and that run fetches the sheet.
Atualizar ==
  /\ stage = "loaded"
  /\ \E values \in {IF cacheLer.has THEN cacheLer.val ELSE ler_dados_of(source)} :
     \E d1 \in {IF cacheLoad.has THEN cacheLoad.val ELSE load_data_of(values)} :
       IF reaches_button(d1)
       THEN \E d \in {load_data_of(ler_dados_of(source))} :
              /\ cacheLer' = [has |-> TRUE, val |-> ler_dados_of(source)]
              /\ cacheLoad' = [has |-> TRUE, val |-> d]
              /\ df' = d
              /\ last' = Kind("clear")
              /\ Main(d, sidebar(d1, ui).ui)
       ELSE /\ cacheLer' = IF cacheLoad.has THEN cacheLer ELSE [has |-> TRUE, val |-> values]
            /\ cacheLoad' = [has |-> TRUE, val |-> d1]
            /\ df' = d1
            /\ last' = Kind(IF cacheLoad.has THEN "hit" ELSE "miss")
            /\ Main(d1, ui)
  /\ UNCHANGED source

\* ttl=300 of lines 55 and 68: the load_data entry reaches its ttl.  The
\* ler_dados entry was stored before it, within the same call of load_data,
\* so by then it has reached its ttl as well.
Expire ==
  /\ cacheLoad.has
  /\ cacheLer' = NoValues
  /\ cacheLoad' = NoLoad
  /\ UNCHANGED <<source, ui, df, view, stage, raised, last>>

\* the session before the first run of the script
InitOn(pool) ==
  /\ source \in pool
  /\ cacheLer = NoValues
  /\ cacheLoad = NoLoad
  /\ ui = NoUI
  /\ df = NoFrame
  /\ view = NoFrame
  /\ stage = "init"
  /\ raised = Unset
  /\ last = "off"

\* the session over a sheet nobody edits meanwhile
Next == Run \/ Atualizar \/ Expire

----------------------------------------------------------------------------
(* Sheets the model is run on *)

FullHeader == <<"DATA", "SDR", "CLOSER", "FUNIL", "STATUS", "VENDA REALIZADA", "VALOR",
                "DIA DA VENDA", "PRODUTO", "CICLO DE VENDAS">>

\* most data rows of a sheet
MaxRows == 2

SeqsUpTo(S, n) == UNION {[1..k -> S] : k \in 0..n}

Up(values) == [up |-> TRUE, values |-> values]

\* sheets of header and at most MaxRows of the given rows, none twice
DistinctSheetsOf(header, rows) ==
  {Up(<<header>> \o rs) :
     rs \in {s \in SeqsUpTo(rows, MaxRows) :
               \A i, j \in 1..Len(s) : i # j => s[i] # s[j]}}

\* sheets of header and at most MaxRows of the given rows
SheetsOf(header, rows) == {Up(<<header>> \o rs) : rs \in SeqsUpTo(rows, MaxRows)}

----------------------------------------------------------------------------
(* The session on sheets of calls with and without a sale *)

RatesHeader == <<"DATA", "SDR", "CLOSER", "FUNIL", "STATUS", "VENDA REALIZADA", "VALOR",
                 "PRODUTO", "CICLO DE VENDAS">>

\* a call that took place and was won; a no-show booked as won on the same
\* day; a no-show without a date
RatesRows ==
  { <<"01/03/2024", "Ana", "Bruno", "Inbound", "Call Realizada", "Ganho", "R$ 1.000,00",
      "Curso", "5">>,
    <<"01/03/2024", "Ana", "Caio", "Outbound", "No Show", "Ganho", "R$ 250,50", "Curso", "">>,
    <<"", "Ana", "Caio", "Outbound", "No Show", "", "", "Curso", "">> }

SpecRates == InitOn(SheetsOf(RatesHeader, RatesRows)) /\ [][Next]_vars

\* C1: in the per-closer table and in the per-funnel table, every group
\* with no 'Call Realizada' row has Taxa_Conversao equal to 0, whether it
\* has 'Ganho' rows or not.
C1_ZeroCallGroupRateIsZero ==
  /\ \A g \in shown.vendedor_stats :
       g.Calls_Realizadas = 0 => g.Taxa_Conversao = IntNum(0)
  /\ \A g \in shown.funil_complete :
       g.Calls_Realizadas = 0 => g.Taxa_Conversao = IntNum(0)

\* the scalar rate the zero-division policy asks for
PolicyRate(num, den) == IF den > 0 THEN Num(num * 100, den) ELSE IntNum(0)

IsCall(r) == Cell(r, "STATUS") = Str("Call Realizada")

IsNoShow(r) == Cell(r, "STATUS") = Str("No Show")

IsGanho(r) == Cell(r, "VENDA REALIZADA") = Str("Ganho")

\* the rows of the view the selector of a tab keeps
OfSelected(col, selected, r) == selected = Str("Todos") \/ Cell(r, col) = selected

\* the positions in d of the rows of a kind
Calls(d) == {i \in 1..Len(d.rows) : IsCall(d.rows[i])}

NoShows(d) == {i \in 1..Len(d.rows) : IsNoShow(d.rows[i])}

Ganhos(d) == {i \in 1..Len(d.rows) : IsGanho(d.rows[i])}

Selected(d, col, selected) == {i \in 1..Len(d.rows) : OfSelected(col, selected, d.rows[i])}

\* C2: on every page that shows the reports, each scalar rate (show,
\* conversion and no-show rate of the overview, conversion rate of the
\* selected closer, show rate of the selected SDR) is numerator /
\* denominator * 100 when the denominator is positive and 0 when it is 0,
\* the empty view included; it is never NaN.
C2_ScalarRatesGuarded ==
  stage = "loaded" =>
    /\ shown.taxa_show = PolicyRate(Cardinality(Calls(view)), len(view))
    /\ shown.taxa_conversao = PolicyRate(Cardinality(Ganhos(view)), Cardinality(Calls(view)))
    /\ shown.taxa_no_show = PolicyRate(Cardinality(NoShows(view)), len(view))
    /\ shown.closer_taxa =
         PolicyRate(Cardinality(Selected(view, "CLOSER", ui.closer) \cap Ganhos(view)),
                    Cardinality(Selected(view, "CLOSER", ui.closer) \cap Calls(view)))
    /\ shown.sdr_taxa_show =
         PolicyRate(Cardinality(Selected(view, "SDR", ui.sdr) \cap Calls(view)),
                    Cardinality(Selected(view, "SDR", ui.sdr)))

\* the reports of an empty view show every rate as 0
C2_EmptyViewWitness ==
  /\ stage = "loaded"
  /\ len(df) > 0
  /\ len(view) = 0
  /\ shown.taxa_show = IntNum(0)
  /\ shown.taxa_conversao = IntNum(0)
  /\ shown.taxa_no_show = IntNum(0)
  /\ shown.closer_taxa = IntNum(0)
  /\ shown.sdr_taxa_show = IntNum(0)

----------------------------------------------------------------------------
(* The session on sheets with scheduling and sale dates *)

\* two calls a day apart, each won on its day; a no-show that has neither
\* a scheduling date nor a sale
FilterRows ==
  { <<"01/03/2024", "Ana", "Bruno", "Inbound", "Call Realizada", "Ganho", "R$ 1.000,00",
      "01/03/2024", "Curso", "5">>,
    <<"02/03/2024", "Ana", "Bruno", "Outbound", "Call Realizada", "Ganho", "R$ 250,50",
      "02/03/2024", "Mentoria", "x">>,
    <<"", "Ana", "Bruno", "Inbound", "No Show", "", "", "", "Curso", "">> }

\* the sheet has no row at all
NoRows == Up(<<>>)

\* the request to the sheet raises
Down == [up |-> FALSE, values |-> <<>>]

SpecFilters ==
  InitOn(DistinctSheetsOf(FullHeader, FilterRows) \cup {NoRows, Down}) /\ [][Next]_vars

\* the scheduling-date filter is applied with a complete range
AgendActive == HasCol(df, "DATA") /\ Len(ui.agend) = 2

\* the sale-date filter is enabled and applied with a complete range
VendaActive == ui.usar /\ Len(ui.venda) = 2

InAgend(r) ==
  LET v == Cell(r, "DATA")
  IN  v.t = "date" /\ ui.agend[1] <= v.n /\ v.n <= ui.agend[2]

KeptByVenda(r) ==
  LET v == Cell(r, "DIA DA VENDA")
  IN  v.t # "date" \/ (ui.venda[1] <= v.n /\ v.n <= ui.venda[2])

\* the rows of frame d, as a set
RowsOf(d) == {d.rows[i] : i \in 1..Len(d.rows)}

\* C3: after the scheduling-date filter is applied with a range
\* [start, end], the frame holds exactly the rows whose DATA is a date with
\* start <= DATA <= end, in their order; rows whose DATA is empty or
\* unparseable are out, and so they are out of the final view.
C3_AgendamentoRangeInclusive ==
  (stage \in {"loaded", "error"} /\ AgendActive) =>
    /\ after_agendamento(df, ui.agend).rows = SelectSeq(df.rows, InAgend)
    /\ \A r \in RowsOf(view) : InAgend(r)

\* a row dated on the end date of the range is kept and a row without a
\* scheduling date is removed
C3_EndDateKeptAbsentRemoved ==
  /\ stage = "loaded"
  /\ AgendActive
  /\ \E r \in RowsOf(df) : Cell(r, "DATA") = Date(ui.agend[2]) /\ r \in RowsOf(view)
  /\ \E r \in RowsOf(df) : Cell(r, "DATA") = NaT /\ r \notin RowsOf(view)

\* C4: with the sale-date filter enabled and a range [start, end], a row is
\* kept if and only if its DIA DA VENDA is absent or within [start, end];
\* with the filter not enabled no row is removed on account of its sale date.
C4_VendaRangeKeepsAbsent ==
  (stage \in {"loaded", "error"} /\ HasCol(df, "DIA DA VENDA")) =>
    LET b == after_agendamento(df, ui.agend)
    IN  /\ after_venda(b, ui.usar, ui.venda).rows =
             IF VendaActive THEN SelectSeq(b.rows, KeptByVenda) ELSE b.rows
        /\ VendaActive => \A r \in RowsOf(view) : KeptByVenda(r)

\* with the sale-date filter on, a row with a sale date in the range and a
\* row without a sale date are both in the view
C4_AbsentSaleDateKept ==
  /\ stage = "loaded"
  /\ VendaActive
  /\ \E r \in RowsOf(view) : Cell(r, "DIA DA VENDA") = NaT
  /\ \E r \in RowsOf(view) : Cell(r, "DIA DA VENDA").t = "date"

\* the sidebar filters by number, each with the parameters the widgets hold
SidebarFilter(k, d) ==
  CASE k = 1 -> after_agendamento(d, ui.agend)
    [] k = 2 -> after_venda(d, ui.usar, ui.venda)
    [] k = 3 -> after_select(d, "PRODUTO", ui.produto)
    [] k = 4 -> after_select(d, "FUNIL", ui.funil)
    [] k = 5 -> after_select(d, "STATUS", ui.status)

\* the predicates of the filters that are active
PassesAll(r) ==
  /\ AgendActive => InAgend(r)
  /\ VendaActive => KeptByVenda(r)
  /\ ui.produto # Str("Todos") => Cell(r, "PRODUTO") = ui.produto
  /\ ui.funil # Str("Todos") => Cell(r, "FUNIL") = ui.funil
  /\ ui.status # Str("Todos") => Cell(r, "STATUS") = ui.status

\* C5: with the parameters fixed, any two of the five sidebar filters give
\* the same rows in either order, and the view is the rows of the frame
\* that satisfy all the active predicates together.
C5_FiltersCommuteAndConjoin ==
  stage = "loaded" =>
    /\ \A i, j \in 1..5 :
         i < j =>
           SidebarFilter(i, SidebarFilter(j, df)) = SidebarFilter(j, SidebarFilter(i, df))
    /\ view.rows = SelectSeq(df.rows, PassesAll)

\* two filters are active and each of them alone removes a row of the frame
C5_TwoFiltersRemoveRows ==
  /\ stage = "loaded"
  /\ \E i, j \in 1..5 :
       /\ i # j
       /\ len(SidebarFilter(i, df)) < len(df)
       /\ len(SidebarFilter(j, df)) < len(df)
  /\ len(view) > 0

\* C6: a source that returns no row makes load_data return None and main
\* show the fallback without raising; a frame with rows that the filters
\* reduce to no row keeps main in the loaded branch, which renders the
\* reports; the fallback is never shown for a frame with rows.
C6_NoDataIsNotEmptyView ==
  stage # "init" =>
    /\ ler_dados_of(source) = <<>> => (df = NoFrame /\ stage = "fallback" /\ raised = Unset)
    /\ (is_loaded(df) /\ len(view) = 0) =>
         (stage = "loaded" /\ raised = Unset /\ shown.total_agendamentos = IntNum(0))
    /\ stage = "fallback" => ~is_loaded(df)

\* a frame with rows filtered down to none, its reports rendered
C6_FilteredToEmptyStillLoaded ==
  /\ stage = "loaded"
  /\ len(df) > 0
  /\ len(view) = 0
  /\ shown.total_agendamentos = IntNum(0)

----------------------------------------------------------------------------
(* The session on sheets of other shapes: columns left out, rows shorter or
   longer than the header, VALOR cells of several forms *)

CoreHeader == <<"SDR", "CLOSER", "FUNIL", "STATUS", "VENDA REALIZADA", "VALOR",
                "PRODUTO", "CICLO DE VENDAS">>

CoreRow == <<"Ana", "Bruno", "Inbound", "Call Realizada", "Ganho", "R$ 1.000,00",
             "Curso", "5">>

\* sequence s without its k-th element
Drop(s, k) == SubSeq(s, 1, k - 1) \o SubSeq(s, k + 1, Len(s))

\* the sheet of CoreRow without the k-th column
MissingColumnSheets ==
  {Up(<<Drop(CoreHeader, k), Drop(CoreRow, k)>>) : k \in 1..Len(CoreHeader)}

\* a complete row, rows cut after a cell, an empty row, a row with a cell
\* beyond the header
ShapeRows ==
  {CoreRow, SubSeq(CoreRow, 1, 4), SubSeq(CoreRow, 1, 7), <<>>, CoreRow \o <<"extra">>}

ValorCells == {"R$ 1.000,00", "R$ 250,50", "1500", "1.5", "", "abc", "-50,00"}

\* the sheet of CoreRow with VALOR cell v
ValorSheet(v) ==
  Up(<<CoreHeader,
       [k \in 1..Len(CoreRow) |-> IF CoreHeader[k] = "VALOR" THEN v ELSE CoreRow[k]]>>)

ScenarioHeader == <<"DATA", "SDR", "CLOSER", "FUNIL", "STATUS", "VENDA REALIZADA", "VALOR">>

ScenarioRow ==
  <<"01/03/2024", "Ana", "Bruno", "Inbound", "Call Realizada", "Ganho", "R$ 1.000,00">>

ScenarioRows ==
  {ScenarioRow, <<"02/03/2024", "Ana", "Caio", "Outbound", "No Show", "", "">>}

SpecSheets ==
  InitOn(MissingColumnSheets \cup SheetsOf(CoreHeader, ShapeRows)
       \cup {ValorSheet(v) : v \in ValorCells} \cup SheetsOf(ScenarioHeader, ScenarioRows))
  /\ [][Next]_vars

\* the matrix the source holds has a header row and at least one data row
HasDataRows == source.up /\ Len(source.values) >= 2

\* C7: when an expected column is missing from the header, the run
\* completes without raising, and the counts and rates that depend on the
\* column are shown as 0.
C7_MissingColumnDegrades ==
  (stage # "init" /\ is_loaded(df)) =>
    /\ raised = Unset
    /\ stage = "loaded"
    /\ ~HasCol(df, "STATUS") =>
         /\ shown.calls_realizadas = IntNum(0)
         /\ shown.taxa_show = IntNum(0)
         /\ shown.taxa_conversao = IntNum(0)
    /\ ~HasCol(df, "VENDA REALIZADA") =>
         /\ shown.vendas_ganhas = IntNum(0)
         /\ shown.taxa_conversao = IntNum(0)

\* C8: a matrix with a header and at least one data row gives a frame,
\* never None, with one record per data row in the order of the source,
\* also when rows are shorter or longer than the header.
C8_RaggedRowsTolerated ==
  (stage # "init" /\ HasDataRows) =>
    /\ df # NoFrame
    /\ len(df) = Len(source.values) - 1
    /\ \A i \in 1..len(df) : df.rows[i].idx = i

\* C9: every record has a VALOR_NUM that is a number >= 0, and it is 0 when
\* the VALOR cell is empty or is no currency value.
C9_ValorNumNonNegative ==
  (stage # "init" /\ ~df.none /\ HasCol(df, "VALOR_NUM")) =>
    \A r \in RowsOf(df) :
      /\ Cell(r, "VALOR_NUM").t = "num"
      /\ Cell(r, "VALOR_NUM").n >= 0
      /\ Cell(r, "VALOR") \in {Str(""), Str("abc"), PyNone} => Cell(r, "VALOR_NUM") = IntNum(0)

\* C10: on a sheet with exactly the header DATA, SDR, CLOSER, FUNIL, STATUS,
\* VENDA REALIZADA, VALOR the overview is produced and shows the number of
\* 'Call Realizada' rows, the number of 'Ganho' rows, the sum of VALOR_NUM
\* of the 'Ganho' rows and sales / calls * 100; for the single row
\* (01/03/2024, Ana, Bruno, Inbound, Call Realizada, Ganho, R$ 1.000,00)
\* these are 1, 1, 1000.00 and 100.0.
C10_ScenarioOverview ==
  (stage # "init" /\ HasDataRows /\ Head(source.values) = ScenarioHeader) =>
    /\ shown.calls_realizadas = IntNum(Cardinality(Calls(view)))
    /\ shown.vendas_ganhas = IntNum(Cardinality(Ganhos(view)))
    /\ shown.taxa_conversao =
         PolicyRate(Cardinality(Ganhos(view)), Cardinality(Calls(view)))
    /\ source.values = <<ScenarioHeader, ScenarioRow>> =>
         /\ shown.calls_realizadas = IntNum(1)
         /\ shown.vendas_ganhas = IntNum(1)
         /\ shown.receita_total = IntNum(1000)
         /\ shown.taxa_conversao = IntNum(100)

----------------------------------------------------------------------------
(* The session on sheets whose sales-cycle cells are numbers, zero,
   negative, empty or no number *)

\* the CICLO DE VENDAS cells
CycleCells == {"5", "12", "0", "-3", "", "x"}

\* a call won after the cycle c when c is a positive number, a no-show
\* otherwise
CycleRow(c) ==
  IF c \in {"5", "12"}
  THEN <<"01/03/2024", "Ana", "Bruno", "Inbound", "Call Realizada", "Ganho",
         "R$ 1.000,00", "Curso", c>>
  ELSE <<"01/03/2024", "Ana", "Bruno", "Inbound", "No Show", "", "", "Curso", c>>

SpecCycle ==
  InitOn(SheetsOf(RatesHeader, {CycleRow(c) : c \in CycleCells})) /\ [][Next]_vars

\* the text of the CICLO DE VENDAS cell of record r in the sheet
RawCiclo(r) == source.values[r.idx + 1][Len(RatesHeader)]

\* the record has a sales cycle that is present and greater than 0
Qualifies(r) ==
  Cell(r, "CICLO DE VENDAS").t = "num" /\ Cell(r, "CICLO DE VENDAS").n > 0

\* the sales cycles of the records of the view that qualify
CycleValues ==
  [i \in 1..Len(SelectSeq(view.rows, Qualifies)) |->
     Cell(SelectSeq(view.rows, Qualifies)[i], "CICLO DE VENDAS")]

\* m is the mean of the numbers vs
IsMean(m, vs) == m.t = "num" /\ m.n * SumSeq(vs).d * Len(vs) = SumSeq(vs).n * m.d

\* m is a median of the numbers vs: at most half of them are below it, at
\* most half above it, and it is one of them or midway between two of them
IsMedian(m, vs) ==
  /\ m.t = "num"
  /\ 2 * Cardinality({i \in 1..Len(vs) : ~LeNum(m, vs[i])}) <= Len(vs)
  /\ 2 * Cardinality({i \in 1..Len(vs) : ~LeNum(vs[i], m)}) <= Len(vs)
  /\ \E i, j \in 1..Len(vs) : AddNum(m, m) = AddNum(vs[i], vs[j])

\* the page sh shows the statistics of the numbers vs, or that there are none
ShowsCycleStats(sh, vs) ==
  /\ sh.ciclo_medio # IntNum(0)
  /\ IF Len(vs) = 0
     THEN /\ sh.ciclo_medio = Str("N/A")
          /\ sh.ciclo_warning
          /\ sh.ciclo_tab_medio = Unset /\ sh.ciclo_mediano = Unset
          /\ sh.ciclo_min = Unset /\ sh.ciclo_max = Unset
     ELSE /\ ~sh.ciclo_warning
          /\ IsMean(sh.ciclo_medio, vs)
          /\ IsMean(sh.ciclo_tab_medio, vs)
          /\ IsMedian(sh.ciclo_mediano, vs)
          /\ \E i \in 1..Len(vs) : sh.ciclo_min = vs[i]
          /\ \E i \in 1..Len(vs) : sh.ciclo_max = vs[i]
          /\ \A i \in 1..Len(vs) : LeNum(sh.ciclo_min, vs[i]) /\ LeNum(vs[i], sh.ciclo_max)

\* C11: the sales-cycle statistics (mean, median, min, max) are those of the
\* records of the view whose CICLO DE VENDAS is present and > 0; a cell that
\* is no number gives an absent cycle, not 0; and when no record of the
\* view qualifies, the overview shows N/A and the cycle tab a warning and no
\* statistics, never the number 0.
C11_CycleStatsOverPresentPositive ==
  stage = "loaded" =>
    /\ \A r \in RowsOf(df) :
         RawCiclo(r) \in {"", "x"} => ~notna(Cell(r, "CICLO DE VENDAS"))
    /\ ShowsCycleStats(shown, CycleValues)

\* a sheet with a record that qualifies, filtered to a view of one record
\* whose cycle cell is no number: N/A and the warning
C11_NoQualifyingRecordInView ==
  /\ stage = "loaded"
  /\ \E r \in RowsOf(df) : Qualifies(r)
  /\ len(view) = 1
  /\ RawCiclo(view.rows[1]) = "x"
  /\ shown.ciclo_medio = Str("N/A")
  /\ shown.ciclo_warning

----------------------------------------------------------------------------
(* The session on a sheet that is edited, emptied, or whose service fails
   and recovers, between the runs of the script *)

LiveRows ==
  { <<"01/03/2024", "Ana", "Bruno", "Inbound", "Call Realizada", "Ganho", "R$ 1.000,00",
      "Curso", "5">>,
    <<"01/03/2024", "Ana", "Caio", "Outbound", "No Show", "", "", "Mentoria", "">> }

LiveSheets == SheetsOf(RatesHeader, LiveRows) \cup {NoRows, Down}

\* the sheet becomes another one of the pool: rows are edited, added or
\* removed, or the requests to the service start or stop failing
Edit(pool) ==
  /\ source' \in pool \ {source}
  /\ UNCHANGED <<cacheLer, cacheLoad, ui, df, view, stage, raised, last>>

\* the session before the first run of the script, its history kept
TrackedOn(pool) ==
  /\ source \in pool
  /\ cacheLer = NoValues
  /\ cacheLoad = NoLoad
  /\ ui = NoUI
  /\ df = NoFrame
  /\ view = NoFrame
  /\ stage = "init"
  /\ raised = Unset
  /\ last = "none"

NextLive == Run \/ Atualizar \/ Expire \/ Edit(LiveSheets)

SpecLive == TrackedOn(LiveSheets) /\ [][NextLive]_vars

\* the caches cl and clo hold the matrix values and its load d, and the
\* record set f and the view v are built from d alone
BuiltFrom(values, d, cl, clo, f, v) ==
  /\ cl = [has |-> TRUE, val |-> values]
  /\ clo = [has |-> TRUE, val |-> d]
  /\ f = d
  /\ RowsOf(v) \subseteq RowsOf(d)

\* both caches hold what the sheet gives now, and the record set and the
\* view are built from that alone
Rebuilt ==
  BuiltFrom(ler_dados_of(source), load_data_of(ler_dados_of(source)),
            cacheLer, cacheLoad, df, view)

\* C12: the run that follows a click on 'Atualizar Dados' requests the
\* matrix again and rebuilds the whole record set from it: the caches and
\* the record set shown hold the load of the matrix the sheet gives at that
\* moment, whatever was cached or shown before.
C12_RefreshRebuilds ==
  [][(last' = "clear" /\ source' = source /\ cacheLoad'.has) =>
       BuiltFrom(ler_dados_of(source), load_data_of(ler_dados_of(source)),
                 cacheLer', cacheLoad', df', view')]_vars

\* the page of a refresh that found two records where the page before it
\* showed another record set
C12_RefreshedPage ==
  /\ last = "clear"
  /\ stage = "loaded"
  /\ Rebuilt
  /\ len(df) = 2

----------------------------------------------------------------------------
(* The session on sheets with cells padded with blanks and with cells
   missing at the end of a row *)

\* CoreRow with blanks around SDR and STATUS and before PRODUTO
SpacedRow ==
  <<" Ana ", "Bruno", "Inbound", " Call Realizada ", "Ganho", "R$ 1.000,00", " Curso", "5">>

TextRows == {CoreRow, SpacedRow, SubSeq(CoreRow, 1, 4)}

SpecText == InitOn(SheetsOf(CoreHeader, TextRows)) /\ [][Next]_vars

Categorical == {"SDR", "CLOSER", "FUNIL", "PRODUTO", "STATUS", "VENDA REALIZADA"}

\* the text s without the whitespace around it
Trimmed(s) == Text(strip(Chars(s)))

\* the row of the sheet that record r was made from
RawRow(r) == source.values[r.idx + 1]

\* C13: in every record, each of SDR, CLOSER, FUNIL, PRODUTO, STATUS and
\* VENDA REALIZADA holds the text of its cell without the surrounding
\* whitespace, letter case kept, when the row has the cell, and is absent
\* or empty when the row ends before the cell; a missing cell never becomes
\* another text.
C13_CategoricalsTrimmed ==
  (stage # "init" /\ ~df.none) =>
    \A r \in RowsOf(df) : \A k \in 1..Len(CoreHeader) :
      CoreHeader[k] \in Categorical =>
        IF k <= Len(RawRow(r))
        THEN Cell(r, CoreHeader[k]) = Str(Trimmed(RawRow(r)[k]))
        ELSE Cell(r, CoreHeader[k]) \in {PyNone, NaN, Str("")}

----------------------------------------------------------------------------
(* The lists of the selectors, on the sheets with scheduling and sale dates *)

\* 'Todos' and the distinct values of column col of the whole record set
AllValues(col) == {Str("Todos")} \cup Unique(df, col)

\* C14: the product, funnel and status selectors each offer the distinct
\* values of their column in the whole unfiltered record set, whatever
\* date range and whatever other selections are active.
C14_SelectorsOfferAllValues ==
  stage = "loaded" =>
    /\ produtos(df, ui) = AllValues("PRODUTO")
    /\ funis(df, ui) = AllValues("FUNIL")
    /\ status_options(df, ui) = AllValues("STATUS")

\* the load_data entry is live and holds no data: None, or a frame
\* without rows
NoDataCached == cacheLoad.has /\ ~is_loaded(cacheLoad.val)

\* C15: a fetch that failed or gave no row is cached like any other: every
\* run of the script leaves both entries in the caches; while the no-data
\* entry is live the page is the no-data page, which has no refresh button,
\* and every run shows it again from the cache without requesting the
\* sheet; the entry is replaced only after it expired.
C15_NoDataCachedUntilExpiry ==
  /\ [](NoDataCached => (stage = "fallback" /\ ~ENABLED Atualizar))
  /\ [][(source' = source /\ (cacheLoad.has => cacheLoad'.has)) =>
          /\ cacheLoad'.has /\ cacheLer'.has
          /\ NoDataCached =>
               /\ cacheLoad' = cacheLoad /\ cacheLer' = cacheLer
               /\ last' = "hit"
               /\ stage' = "fallback" /\ df' = cacheLoad.val /\ view' = NoFrame]_vars

\* the sheet has data rows by now, and the last run still showed the
\* no-data page from the live cache entry of a fetch that gave none
C15_StaleNoDataPage ==
  /\ HasDataRows
  /\ NoDataCached
  /\ last = "hit"
  /\ stage = "fallback"

====
